---- MODULE Spec2Model ----
(***************************************************************************)
(* A model of the PayU client: the OAuth token cache (auth/OAuth.ts), the  *)
(* order-lifecycle calls and the notification signature check (PayU.ts).   *)
(*                                                                         *)
(* Time is counted in ticks, TicksPerSec ticks to a second, so that two    *)
(* instants of the same second can differ (dayjs compares with a unit).    *)
(***************************************************************************)
EXTENDS Integers, Sequences, FiniteSets, Bags, TLC

\* ---------------------------------------------------------------- bounds
MaxCalls == 2
MaxTime == 4
MaxTTL == 1
TicksPerSec == 2
MaxSegs == 3

\* dayjs().subtract(1, "minute"): sixty seconds
MinuteSecs == 60

VARIABLES
    now,          \* the clock, in ticks
    accessToken,  \* OAuth.accessToken
    expiry,       \* OAuth.expiry, in ticks
    pending,      \* the bag of getAccessToken calls suspended at an await
    finished,     \* the getAccessToken call settled by the latest step, if any
    started,      \* whether getAccessToken was ever called on the instance
    lastWrite,    \* the latest write of the cache: constructor, catch or store
    owedUntil,    \* per token, the end of lifetime of its latest live fetch
    orders,       \* the order-lifecycle calls of PayU
    verif         \* the runs of verifyNotification

vars == <<now, accessToken, expiry, pending, finished, started, lastWrite, owedUntil, orders, verif>>

\* ------------------------------------------------------------ OAuth data
Tokens == {"abc", "xyz"}

Seconds(n) == n * TicksPerSec

\* the body of a successful token response
OkResponses == [access_token : Tokens, expires_in : 1..MaxTTL]

\* The body of an HTTP error response: a JSON error object, or not JSON.
JsonErrBody == [json |-> TRUE, error |-> "invalid_client", error_description |-> "bad secret"]
HtmlErrBody == [json |-> FALSE, error |-> "", error_description |-> ""]
ErrBodies == {JsonErrBody, HtmlErrBody}

\* Thrown values, one shape for all: the class and two fields.
Err(type, a, b) == [type |-> type, a |-> a, b |-> b]
NoErr == Err("none", "", "")
\* a failure of the transport that is no HTTPError (ky/fetch rejects)
NetworkFailure == Err("TypeError", "fetch failed", "")
\* ky's HTTPError for a non-2xx response; its response carries the body
HTTPError(body) == Err("HTTPError", IF body.json THEN "json" ELSE "html", "")
\* what response.json() throws on a body that is not JSON
JsonDecodeFailure == Err("SyntaxError", "Unexpected token <", "")
AuthenticationError(e, d) == Err("AuthenticationError", e, d)

NoBody == [json |-> FALSE, error |-> "-", error_description |-> "-"]

\* A getAccessToken call: its position, what it saw, did and delivered.
NewCall ==
    [pc |-> "new", hit |-> FALSE, early |-> FALSE, fetches |-> 0, due |-> {},
     failure |-> NoErr, body |-> NoBody, returned |-> "", thrown |-> NoErr]

\* -------------------------------------------------------- OAuth operators
\* dayjs endOf("seconds"): the last tick of the second t lies in
EndOfSecond(t) == (t \div TicksPerSec) * TicksPerSec + (TicksPerSec - 1)

\* dayjs(a).isBefore(b, "seconds"): a's end of second is before b
IsBeforeSeconds(a, b) == EndOfSecond(a) < b

IsBeforeExact(a, b) == a < b

\* the condition of getAccessToken's early return
IsCacheValidNoUnit(t, tok, exp) == IsBeforeExact(t, exp) /\ tok # ""

IsCacheValid(t, tok, exp) == IsBeforeSeconds(t, exp) /\ tok # ""

\* the invalidated cache: constructor and catch
ResetCacheKeepToken(t, tok) == [accessToken |-> tok, expiry |-> t - Seconds(MinuteSecs)]

ResetCache(t, tok) == [accessToken |-> "", expiry |-> t - Seconds(MinuteSecs)]

\* the cache after a successful fetch
StoreToken(t, resp) ==
    [accessToken |-> resp.access_token, expiry |-> t + Seconds(resp.expires_in)]

\* the call after its fetch was rejected with a failure that is rethrown
RejectAndRetry(cr, err) ==
    [cr EXCEPT !.pc = "fetching", !.fetches = @ + 1, !.failure = err]

Reject(cr, err) ==
    [cr EXCEPT !.pc = "done", !.failure = err, !.thrown = err]

\* the tokens of the successful fetches whose lifetime covers instant t, by
\* whole seconds
Owed(t) == {k \in Tokens : t \div TicksPerSec < owedUntil[k] \div TicksPerSec}

Max(a, b) == IF a < b THEN b ELSE a

WriteReset(t) == [kind |-> "reset", token |-> "", at |-> t, ttl |-> 0]
WriteStore(t, resp) ==
    [kind |-> "store", token |-> resp.access_token, at |-> t, ttl |-> resp.expires_in]

\* ------------------------------------------------------------------ Init
InitOAuth ==
    /\ now = 0
    /\ accessToken = ResetCache(0, "").accessToken
    /\ expiry = ResetCache(0, "").expiry
    /\ pending = EmptyBag
    /\ finished = NewCall
    /\ started = FALSE
    /\ lastWrite = WriteReset(0)
    /\ owedUntil = [k \in Tokens |-> 0]

Init ==
    /\ InitOAuth
    /\ orders = <<>>
    /\ verif = <<>>

\* --------------------------------------------------------- OAuth actions
Tick ==
    /\ now < MaxTime
    /\ now' = now + 1
    /\ owedUntil' = [k \in Tokens |->
           IF (now + 1) \div TicksPerSec < owedUntil[k] \div TicksPerSec
           THEN owedUntil[k] ELSE 0]
    /\ finished' = NewCall
    /\ UNCHANGED <<accessToken, expiry, pending, started, lastWrite, orders, verif>>

\* getAccessToken up to its first suspension: the early return, or the POST
\* of _fetchAccessToken, which leaves the call pending.
GetAccessToken ==
    /\ LET cr == [NewCall EXCEPT !.early = (accessToken # "" /\ now < expiry),
                                 !.due = Owed(now)]
       IN  IF IsCacheValid(now, accessToken, expiry)
           THEN /\ finished' = [cr EXCEPT !.pc = "done", !.hit = TRUE,
                                          !.returned = accessToken]
                /\ pending' = pending
           ELSE /\ BagCardinality(pending) < MaxCalls
                /\ pending' = pending (+)
                       SetToBag({[cr EXCEPT !.pc = "fetching", !.fetches = @ + 1]})
                /\ finished' = NewCall
    /\ started' = TRUE
    /\ UNCHANGED <<now, accessToken, expiry, lastWrite, owedUntil, orders, verif>>

\* the POST resolves: getAccessToken stores the token and returns it
FetchSucceeds(cr) ==
    /\ cr.pc = "fetching"
    /\ \E resp \in OkResponses :
         LET cache == StoreToken(now, resp)
         IN  /\ accessToken' = cache.accessToken
             /\ expiry' = cache.expiry
             /\ finished' = [cr EXCEPT !.pc = "done", !.returned = cache.accessToken]
             /\ owedUntil' = [owedUntil EXCEPT ![resp.access_token] =
                    Max(@, now + Seconds(resp.expires_in))]
             /\ lastWrite' = WriteStore(now, resp)
    /\ pending' = pending (-) SetToBag({cr})
    /\ UNCHANGED <<now, started, orders, verif>>

\* the POST rejects with a failure that is no HTTPError: reset, rethrow
FetchFailsNetwork(cr) ==
    /\ cr.pc = "fetching"
    /\ LET cache == ResetCache(now, accessToken)
           nx == Reject(cr, NetworkFailure)
       IN  /\ accessToken' = cache.accessToken
           /\ expiry' = cache.expiry
           /\ IF nx.pc = "done"
              THEN /\ finished' = nx
                   /\ pending' = pending (-) SetToBag({cr})
              ELSE /\ finished' = NewCall
                   /\ pending' = (pending (-) SetToBag({cr})) (+) SetToBag({nx})
    /\ lastWrite' = WriteReset(now)
    /\ UNCHANGED <<now, started, owedUntil, orders, verif>>

\* the POST rejects with an HTTPError: reset, then await response.json()
FetchFailsHTTP(cr) ==
    /\ cr.pc = "fetching"
    /\ \E body \in ErrBodies :
         pending' = (pending (-) SetToBag({cr})) (+)
             SetToBag({[cr EXCEPT !.pc = "decoding", !.failure = HTTPError(body),
                                  !.body = body]})
    /\ LET cache == ResetCache(now, accessToken)
       IN  /\ accessToken' = cache.accessToken
           /\ expiry' = cache.expiry
    /\ lastWrite' = WriteReset(now)
    /\ finished' = NewCall
    /\ UNCHANGED <<now, started, owedUntil, orders, verif>>

\* response.json() settles: AuthenticationError from the body, or the
\* decoding's own failure leaves the catch block
ErrorBodyDecoded(cr) ==
    /\ cr.pc = "decoding"
    /\ LET b == cr.body
           err == IF b.json THEN AuthenticationError(b.error, b.error_description)
                            ELSE JsonDecodeFailure
       IN  finished' = [cr EXCEPT !.pc = "done", !.thrown = err]
    /\ pending' = pending (-) SetToBag({cr})
    /\ UNCHANGED <<now, accessToken, expiry, started, lastWrite, owedUntil, orders, verif>>

NextOAuth ==
    \/ Tick
    \/ GetAccessToken
    \/ \E cr \in BagToSet(pending) : FetchSucceeds(cr)
    \/ \E cr \in BagToSet(pending) : FetchFailsNetwork(cr)
    \/ \E cr \in BagToSet(pending) : FetchFailsHTTP(cr)
    \/ \E cr \in BagToSet(pending) : ErrorBodyDecoded(cr)

Spec == Init /\ [][NextOAuth]_vars

\* ------------------------------------------------------- order lifecycle
\* `orders` is the order-lifecycle call in progress:
\*   pc "idle" -> "token" (awaiting getAccessToken) -> "sent" (request under
\*   way) -> "done".
OrderOps == {"createOrder", "captureOrder", "cancelOrder", "refundOrder"}

\* HTTP statuses the order endpoints answer with
Statuses == {200, 201, 302, 400, 401, 500}

\* response.ok of the fetch API
ResponseOk(status) == 200 <= status /\ status <= 299

\* the statuses createOrder accepts
CreateAccepted == {200, 201, 302}

\* an absent property of a decoded JSON object
Undefined == "\\undefined"

\* the status object of an OrderStatusResponse body
StatusObjects ==
    [statusCode : {"ERROR_VALUE_MISSING", "UNAUTHORIZED"},
     code : {Undefined, "8300"},
     codeLiteral : {"MISSING_REFUND_SECTION", "INVALID_TOKEN"},
     statusDesc : {"Missing required field", "Unauthorized"}]

NoStatus ==
    [statusCode |-> "", code |-> "", codeLiteral |-> "", statusDesc |-> ""]

\* JavaScript's a || b on strings and undefined
OrElse(a, b) == IF a = Undefined \/ a = "" THEN b ELSE a

PayUError(st) ==
    [type |-> "PayUError", statusCode |-> st.statusCode,
     code |-> OrElse(st.code, ""), codeLiteral |-> st.codeLiteral,
     statusDesc |-> st.statusDesc]

RawHTTPError(status) ==
    [type |-> "HTTPError", statusCode |-> "", code |-> "", codeLiteral |-> "",
     statusDesc |-> ""]

NoOutcome ==
    [type |-> "none", statusCode |-> "", code |-> "", codeLiteral |-> "",
     statusDesc |-> ""]

Returned ==
    [type |-> "returned", statusCode |-> "", code |-> "", codeLiteral |-> "",
     statusDesc |-> ""]

AuthFailed ==
    [type |-> "AuthenticationError", statusCode |-> "", code |-> "",
     codeLiteral |-> "", statusDesc |-> ""]

IdleOrder ==
    [pc |-> "idle", op |-> "none", status |-> 0, body |-> NoStatus,
     outcome |-> NoOutcome]

\* createOrder once the response is there: throwHttpErrors is off, the
\* status decides
CreateOrderOutcome(status, st) ==
    IF status \notin CreateAccepted THEN PayUError(st) ELSE Returned

\* Whether the try block of an operation observes the rejection of its
\* request: `return promise` leaves the try block before the promise settles.
TryAwaitsRequest(op) == FALSE

\* captureOrder, cancelOrder, refundOrder once the response is there: ky
\* rejects with HTTPError when the response is not ok
StatusCallOutcome(op, status, st) ==
    IF ResponseOk(status) THEN Returned
    ELSE IF TryAwaitsRequest(op) THEN PayUError(st)
    ELSE RawHTTPError(status)

InitOrders ==
    /\ InitOAuth
    /\ orders = IdleOrder
    /\ verif = <<>>

\* the operation is called and awaits oAuth.getAccessToken()
StartOrderCall ==
    /\ orders.pc \in {"idle", "done"}
    /\ \E op \in OrderOps : orders' = [IdleOrder EXCEPT !.pc = "token", !.op = op]
    /\ UNCHANGED <<now, accessToken, expiry, pending, finished, started,
                   lastWrite, owedUntil, verif>>

\* getAccessToken resolved: the request is sent
OrderTokenObtained ==
    /\ orders.pc = "token"
    /\ orders' = [orders EXCEPT !.pc = "sent"]
    /\ UNCHANGED <<now, accessToken, expiry, pending, finished, started,
                   lastWrite, owedUntil, verif>>

\* getAccessToken rejected: the operation fails with its error
OrderTokenFailed ==
    /\ orders.pc = "token"
    /\ orders' = [orders EXCEPT !.pc = "done", !.outcome = AuthFailed]
    /\ UNCHANGED <<now, accessToken, expiry, pending, finished, started,
                   lastWrite, owedUntil, verif>>

\* the endpoint answers
OrderResponse ==
    /\ orders.pc = "sent"
    /\ \E status \in Statuses, st \in StatusObjects :
         \* redirects are followed except by createOrder (redirect: "manual")
         /\ (orders.op # "createOrder" => status # 302)
         /\ orders' = [orders EXCEPT
                !.pc = "done", !.status = status, !.body = st,
                !.outcome = IF orders.op = "createOrder"
                            THEN CreateOrderOutcome(status, st)
                            ELSE StatusCallOutcome(orders.op, status, st)]
    /\ UNCHANGED <<now, accessToken, expiry, pending, finished, started,
                   lastWrite, owedUntil, verif>>

NextOrders ==
    \/ StartOrderCall
    \/ OrderTokenObtained
    \/ OrderTokenFailed
    \/ OrderResponse

SpecOrders == InitOrders /\ [][NextOrders]_vars

\* the response lies outside the accepted status set of the operation
OutsideAccepted(op, status) ==
    IF op = "createOrder" THEN status \notin CreateAccepted ELSE ~ResponseOk(status)

\* C6: an order-lifecycle operation whose response lies outside its accepted
\* status set fails with a PayUError carrying statusCode, code, codeLiteral
\* and statusDesc of the body's status object (an absent code as ""), not
\* with the raw HTTP error.
C6_OrderFailsWithPayUError ==
    (/\ orders.pc = "done"
     /\ orders.outcome # AuthFailed
     /\ OutsideAccepted(orders.op, orders.status))
        => /\ orders.outcome.type = "PayUError"
           /\ orders.outcome.statusCode = orders.body.statusCode
           /\ orders.outcome.code =
                 (IF orders.body.code = Undefined THEN "" ELSE orders.body.code)
           /\ orders.outcome.codeLiteral = orders.body.codeLiteral
           /\ orders.outcome.statusDesc = orders.body.statusDesc

\* ------------------------------------------------- notification signature
\* Strings are sequences of one-character strings.
SignatureKey == <<"s", "i", "g", "n", "a", "t", "u", "r", "e">>
AlgorithmKey == <<"a", "l", "g", "o", "r", "i", "t", "h", "m">>
MD5Name == <<"M", "D", "5">>

\* the merchant's second key, and the notification bodies
SecondKey == <<"k", "2">>
Payloads == {<<"{", "a", "}">>, <<"{", "b", "}">>}

\* the value of a property that was never set, or set from a missing part
UndefinedVal == <<Undefined>>

HexDigits ==
    <<"0", "1", "2", "3", "4", "5", "6", "7", "8", "9", "a", "b", "c", "d", "e", "f">>

CharCode(c) ==
    CASE c = "{" -> 123 [] c = "}" -> 125 [] c = "a" -> 97 [] c = "b" -> 98
      [] c = "k" -> 107 [] c = "2" -> 50 [] OTHER -> 63

RECURSIVE HashBytes(_, _)
HashBytes(s, h) ==
    IF s = <<>> THEN h
    ELSE HashBytes(Tail(s), (h * 31 + CharCode(Head(s))) % 256)

\* createHash("md5").update(s).digest("hex"), cut down to one byte: a fixed
\* function of the bytes of s, printed in lowercase hexadecimal
HexDigest(s) ==
    LET h == HashBytes(s, 7)
    IN  <<HexDigits[(h \div 16) + 1], HexDigits[(h % 16) + 1]>>

\* the index of the first ch in s, 0 when there is none
RECURSIVE IndexOf(_, _, _)
IndexOf(s, ch, from) ==
    IF from > Len(s) THEN 0
    ELSE IF s[from] = ch THEN from
    ELSE IndexOf(s, ch, from + 1)

\* String.prototype.split with a one-character separator
RECURSIVE Split(_, _)
Split(s, ch) ==
    LET i == IndexOf(s, ch, 1)
    IN  IF i = 0 THEN <<s>>
        ELSE <<SubSeq(s, 1, i - 1)>> \o Split(SubSeq(s, i + 1, Len(s)), ch)

\* acc[key] = val
AssignTokenIfAbsent(acc, key, val) ==
    IF key \in DOMAIN acc THEN acc
    ELSE [k \in DOMAIN acc \cup {key} |-> IF k = key THEN val ELSE acc[k]]

AssignToken(acc, key, val) ==
    [k \in DOMAIN acc \cup {key} |-> IF k = key THEN val ELSE acc[k]]

\* the reducer of parseHeaderToJson: const [key, val] = curr.split("=")
ReduceSegment(acc, curr) ==
    IF curr = <<>> THEN acc
    ELSE LET parts == Split(curr, "=")
         IN  AssignToken(acc, parts[1],
                         IF Len(parts) >= 2 THEN parts[2] ELSE UndefinedVal)

RECURSIVE Reduce(_, _)
Reduce(segs, acc) ==
    IF segs = <<>> THEN acc ELSE Reduce(Tail(segs), ReduceSegment(acc, Head(segs)))

\* the object without properties
EmptyObject == [k \in {} |-> UndefinedVal]

parseHeaderToJson(data) == Reduce(Split(data, ";"), EmptyObject)

\* tokens[key]
Get(tokens, key) == IF key \in DOMAIN tokens THEN tokens[key] ELSE UndefinedVal

\* !v for a string or undefined
Not(v) == v = UndefinedVal \/ v = <<>>

\* the guard of verifyNotification
FieldsMissingSignatureOnly(tokens) ==
    Not(Get(tokens, SignatureKey)) \/ Get(tokens, SignatureKey) = <<>>

FieldsMissing(tokens) ==
    \/ Not(Get(tokens, SignatureKey))
    \/ Get(tokens, SignatureKey) = <<>>
    \/ Not(Get(tokens, AlgorithmKey))
    \/ Get(tokens, AlgorithmKey) = <<>>

verifyNotification(payuHeader, jsonNotification) ==
    LET tokens == parseHeaderToJson(payuHeader)
    IN  IF FieldsMissing(tokens) THEN FALSE
        ELSE HexDigest(jsonNotification \o SecondKey) = Get(tokens, SignatureKey)

\* ---- the headers a notification may carry
HeaderValues == {HexDigest(p \o SecondKey) : p \in Payloads} \cup {MD5Name}

HeaderSegments ==
    {<<>>}
    \cup {k : k \in {SignatureKey, AlgorithmKey}}
    \cup {k \o <<"=">> : k \in {SignatureKey, AlgorithmKey}}
    \cup {k \o <<"=">> \o v : k \in {SignatureKey, AlgorithmKey}, v \in HeaderValues}
    \cup {SignatureKey \o <<"=">> \o HexDigest(p \o SecondKey) \o <<"=">> \o MD5Name :
            p \in Payloads}
    \cup {AlgorithmKey \o <<"=">> \o MD5Name \o <<"=">> \o MD5Name}

RECURSIVE Join(_)
Join(segs) ==
    IF Len(segs) = 0 THEN <<>>
    ELSE IF Len(segs) = 1 THEN segs[1]
    ELSE segs[1] \o <<";">> \o Join(Tail(segs))

Headers ==
    {Join(segs) : segs \in UNION {[1..n -> HeaderSegments] : n \in 1..MaxSegs}}

IdleVerif ==
    [pc |-> "idle", header |-> <<>>, payload |-> <<>>, tokens |-> EmptyObject,
     result |-> FALSE]

InitVerify ==
    /\ InitOAuth
    /\ orders = <<>>
    /\ verif = IdleVerif

\* a notification arrives with its OpenPayu-Signature header
ReceiveNotification ==
    /\ verif.pc = "idle"
    /\ \E h \in Headers, p \in Payloads :
         verif' = [IdleVerif EXCEPT !.pc = "received", !.header = h, !.payload = p]
    /\ UNCHANGED <<now, accessToken, expiry, pending, finished, started,
                   lastWrite, owedUntil, orders>>

\* verifyNotification(header, payload) runs
VerifyNotification ==
    /\ verif.pc = "received"
    /\ verif' = [verif EXCEPT
           !.pc = "verified",
           !.tokens = parseHeaderToJson(verif.header),
           !.result = verifyNotification(verif.header, verif.payload)]
    /\ UNCHANGED <<now, accessToken, expiry, pending, finished, started,
                   lastWrite, owedUntil, orders>>

NextVerify ==
    \/ ReceiveNotification
    \/ VerifyNotification

SpecVerify == InitVerify /\ [][NextVerify]_vars

\* ---- the header read position by position
\* the positions where a segment of h starts
SegStarts(h) == {1} \cup {i + 1 : i \in {j \in 1..Len(h) : h[j] = ";"}}

\* the last position of the segment starting at a (a - 1 when it is empty)
SegEnd(h, a) ==
    LET semis == {j \in a..Len(h) : h[j] = ";"}
    IN  IF semis = {} THEN Len(h)
        ELSE (CHOOSE j \in semis : \A l \in semis : j <= l) - 1

\* the positions of '=' in the segment starting at a, in order
EqsOf(h, a) == {j \in a..SegEnd(h, a) : h[j] = "="}

MinOf(S) == CHOOSE j \in S : \A l \in S : j <= l
MaxOf(S) == CHOOSE j \in S : \A l \in S : l <= j

KeyAt(h, a) ==
    IF EqsOf(h, a) = {} THEN SubSeq(h, a, SegEnd(h, a))
    ELSE SubSeq(h, a, MinOf(EqsOf(h, a)) - 1)

\* the value as the whole remainder after the first '='
RemainderAt(h, a) ==
    IF EqsOf(h, a) = {} THEN UndefinedVal
    ELSE SubSeq(h, MinOf(EqsOf(h, a)) + 1, SegEnd(h, a))

\* the value as the part between the first '=' and the second
SecondPartAt(h, a) ==
    LET eqs == EqsOf(h, a)
    IN  IF eqs = {} THEN UndefinedVal
        ELSE LET rest == eqs \ {MinOf(eqs)}
             IN  SubSeq(h, MinOf(eqs) + 1,
                        IF rest = {} THEN SegEnd(h, a) ELSE MinOf(rest) - 1)

NonEmptyStarts(h) == {a \in SegStarts(h) : SegEnd(h, a) >= a}

LastStartOf(h, k) == MaxOf({a \in NonEmptyStarts(h) : KeyAt(h, a) = k})

\* C9 as stated: empty segments are skipped, the last segment of a key
\* decides, and the value of a key is the whole remainder of its segment
\* after the first '='.
C9_ValueIsRemainder ==
    verif.pc = "verified" =>
        verif.tokens =
            [k \in {KeyAt(verif.header, a) : a \in NonEmptyStarts(verif.header)} |->
                RemainderAt(verif.header, LastStartOf(verif.header, k))]

\* C9 amended: empty segments are skipped, the last segment of a key decides,
\* and the value of a key is the part of its segment between the first '='
\* and the second one (to the end of the segment when there is no second;
\* undefined when the segment has no '=').
C9_ValueIsSecondPart ==
    verif.pc = "verified" =>
        verif.tokens =
            [k \in {KeyAt(verif.header, a) : a \in NonEmptyStarts(verif.header)} |->
                SecondPartAt(verif.header, LastStartOf(verif.header, k))]

\* a header with the signature key in two segments, the last one holding a
\* second '=' whose remainder was cut off
C9_Witness ==
    /\ verif.pc = "verified"
    /\ Cardinality({a \in NonEmptyStarts(verif.header) :
                       KeyAt(verif.header, a) = SignatureKey}) >= 2
    /\ Cardinality(EqsOf(verif.header, LastStartOf(verif.header, SignatureKey))) = 2
    /\ verif.tokens[SignatureKey] #
          RemainderAt(verif.header, LastStartOf(verif.header, SignatureKey))

\* a field of the parsed header is there and not empty
Present(tokens, k) ==
    k \in DOMAIN tokens /\ tokens[k] # UndefinedVal /\ Len(tokens[k]) > 0

\* C7: verifyNotification yields a boolean: false when the parsed header has
\* no or an empty signature or algorithm, and otherwise true exactly when the
\* hex digest of payload and second key equals the signature value; a
\* signature computed with the key and sent back is accepted.
C7_VerifyIsDigestEquality ==
    verif.pc = "verified" =>
        /\ verif.result \in BOOLEAN
        /\ verif.result =
              (/\ Present(verif.tokens, SignatureKey)
               /\ Present(verif.tokens, AlgorithmKey)
               /\ verif.tokens[SignatureKey] = HexDigest(verif.payload \o SecondKey))
        /\ verif.header = SignatureKey \o <<"=">> \o HexDigest(verif.payload \o SecondKey)
                            \o <<";">> \o AlgorithmKey \o <<"=">> \o MD5Name
              => verif.result = TRUE

\* the round trip: the digest of the payload, sent back, is accepted
C7_Witness ==
    /\ verif.pc = "verified"
    /\ verif.header = SignatureKey \o <<"=">> \o HexDigest(verif.payload \o SecondKey)
                        \o <<";">> \o AlgorithmKey \o <<"=">> \o MD5Name
    /\ verif.result = TRUE

\* ---------------------------------------------------------- OAuth claims
\* the number of token-fetch requests in flight
InFlight ==
    LET F == {cr \in BagToSet(pending) : cr.pc = "fetching"}
    IN  BagCardinality([cr \in F |-> pending[cr]])

SecondOf(t) == t \div TicksPerSec

\* C1: at most one token-fetch request is in flight at any time, whatever
\* getAccessToken calls overlap.
C1_SingleFlight == InFlight <= 1

\* C2: a call whose fetch was rejected with the JSON error body {e, d} fails
\* with AuthenticationError(e, d), and when that error reaches the caller the
\* cache is absent/expired: empty token, expiry in the past.
C2_AuthErrorLeavesCacheReset ==
    (finished.pc = "done" /\ finished.failure.type = "HTTPError" /\ finished.body.json)
        => /\ finished.thrown =
                AuthenticationError(finished.body.error, finished.body.error_description)
           /\ accessToken = ""
           /\ expiry < now

\* C3: a call made after a fetch returned token t with lifetime n, and before
\* that lifetime ends (here: in a whole second before the second it ends in,
\* the reading under which a lone caller is always served from the cache),
\* returns t.
C3_TokenServedUntilExpiry ==
    finished.pc = "done" => \A k \in finished.due : finished.returned = k

\* C8: a call whose fetch failed otherwise than by an HTTP rejection with a
\* decodable JSON body fails with that very failure.
C8_TransportFailureUnchanged ==
    (/\ finished.pc = "done"
     /\ finished.failure # NoErr
     /\ ~(finished.failure.type = "HTTPError" /\ finished.body.json))
        => finished.thrown = finished.failure

\* a step in which a getAccessToken call returns from the cache
HitStep == finished'.pc = "done" /\ finished'.hit
\* a step in which a getAccessToken call issues its POST
MissStep == BagCardinality(pending') = BagCardinality(pending) + 1

\* C4: a call returns the cached token, with no fetch, exactly when the token
\* is non-empty and the second of the current instant is strictly before the
\* second of the expiry; otherwise it issues one fetch.
C4_CacheHitRule ==
    [][LET fresh == accessToken # "" /\ SecondOf(now) < SecondOf(expiry)
       IN  /\ HitStep => /\ fresh
                         /\ finished'.returned = accessToken
                         /\ finished'.fetches = 0
                         /\ pending' = pending
           /\ MissStep => /\ ~fresh
                          /\ \A cr \in BagToSet(pending') :
                                CopiesIn(cr, pending') > CopiesIn(cr, pending)
                                    => cr.fetches = 1 /\ cr.pc = "fetching"]_vars

\* a call in the second of the expiry, before the expiry instant, fetched
C4_Witness ==
    \E cr \in BagToSet(pending) : cr.pc = "fetching" /\ cr.early

\* C5: a call that misses the cache issues exactly one fetch, a call served
\* from the cache none; the first call on a fresh instance misses; a failed
\* fetch is surfaced to its caller and not repeated within the call.
C5_OneFetchPerMiss ==
    /\ ~started => /\ accessToken = ""
                   /\ expiry = 0 - Seconds(MinuteSecs)
                   /\ ~(accessToken # "" /\ SecondOf(now) < SecondOf(expiry))
    /\ \A cr \in BagToSet(pending) : cr.fetches = 1 /\ ~cr.hit
    /\ finished.pc = "done" =>
          /\ finished.fetches = (IF finished.hit THEN 0 ELSE 1)
          /\ finished.failure # NoErr =>
                finished.thrown # NoErr /\ finished.returned = ""

C5_Witness ==
    finished.pc = "done" /\ finished.failure # NoErr /\ finished.fetches = 1

\* C10: the token and the expiry are one pair: the empty token with the
\* sentinel of the latest reset, or the token of the latest stored response
\* with that response's completion time plus its expires_in.
C10_CachePairConsistent ==
    \/ /\ lastWrite.kind = "reset"
       /\ accessToken = ""
       /\ expiry = lastWrite.at - Seconds(MinuteSecs)
    \/ /\ lastWrite.kind = "store"
       /\ accessToken = lastWrite.token
       /\ expiry = lastWrite.at + Seconds(lastWrite.ttl)

\* a failure reset the cache while a stored token's lifetime was running
C10_Witness ==
    /\ accessToken = ""
    /\ \E k \in Tokens : SecondOf(now) < SecondOf(owedUntil[k])
    /\ pending # EmptyBag

====
